---- MODULE Spec2Model ----
(***************************************************************************)
(* A model of pkg/router/template/template_helper.go: the template helper  *)
(* functions of the router (pattern cache, pattern matcher, alias grouping *)
(* and primary alias selection, certificate map generation, annotation     *)
(* sanitizers, endpoint processing).                                       *)
(*                                                                         *)
(* Strings are sequences of one-character strings, so that concatenation,  *)
(* prefixes and the byte order used by sort.StringSlice are computed and   *)
(* not assumed.  A regular expression is a sequence of tokens.             *)
(***************************************************************************)
EXTENDS Integers, Sequences, FiniteSets, TLC

VARIABLES
    compiledRegexp, \* the sync.Map: pattern -> compiled regexp
    calls,          \* each concurrent caller's position in cachedRegexpCompile
    history,        \* ghost: Store operations per pattern, patterns asked for
    td,             \* templateData handed to the map generators
    svc,            \* ServiceUnit whose EndpointTable backs the returned slice
    args,           \* the arguments of the helper that is called
    result,         \* what the helper returned
    op              \* the helper that has returned ("none" before the call)

vars == <<compiledRegexp, calls, history, td, svc, args, result, op>>

(***************************************************************************)
(* Bounds of the model.                                                    *)
(***************************************************************************)
MaxCallsPerCaller == 2
MaxPatternLen == 3
MaxValues == 2
MaxAliases == 2
MaxGroup == 3
MaxEndpoints == 3
MaxListLen == 5
MaxDuration == 6

(***************************************************************************)
(* Strings.                                                                *)
(***************************************************************************)
\* Byte value of the characters the model uses (Go compares strings bytewise).
Ord(c) ==
    CASE c = "\t" -> 9
      [] c = " " -> 32
      [] c = "*" -> 42
      [] c = "," -> 44
      [] c = "." -> 46
      [] c = "/" -> 47
      [] c = "1" -> 49
      [] c = "2" -> 50
      [] c = ":" -> 58
      [] c = "[" -> 91
      [] c = "]" -> 93
      [] c = "a" -> 97
      [] c = "b" -> 98
      [] c = "c" -> 99
      [] c = "e" -> 101
      [] c = "g" -> 103
      [] c = "h" -> 104
      [] c = "l" -> 108
      [] c = "m" -> 109
      [] c = "n" -> 110
      [] c = "p" -> 112
      [] c = "r" -> 114
      [] c = "s" -> 115
      [] c = "t" -> 116
      [] c = "w" -> 119

\* Go's s < t on strings: bytewise lexicographic, a proper prefix is smaller.
RECURSIVE StrLess(_, _)
StrLess(s, t) ==
    IF t = <<>> THEN FALSE
    ELSE IF s = <<>> THEN TRUE
    ELSE IF Ord(Head(s)) < Ord(Head(t)) THEN TRUE
    ELSE IF Ord(Head(s)) > Ord(Head(t)) THEN FALSE
    ELSE StrLess(Tail(s), Tail(t))

IsPrefix(s, t) == Len(s) <= Len(t) /\ SubSeq(t, 1, Len(s)) = s

\* strings.Join(elems, sep)
RECURSIVE StringsJoin(_, _)
StringsJoin(elems, sep) ==
    IF elems = <<>> THEN <<>>
    ELSE IF Len(elems) = 1 THEN elems[1]
    ELSE elems[1] \o sep \o StringsJoin(Tail(elems), sep)

\* All sequences over S of length at most n.
SeqsUpTo(S, n) == UNION {[1..k -> S] : k \in 0..n}

\* All orders in which a map with key set K can be ranged over.
Perms(K) ==
    {p \in [1..Cardinality(K) -> K] : \A i, j \in 1..Cardinality(K) : i # j => p[i] # p[j]}

(***************************************************************************)
(* sort.Sort(sort.Reverse(sort.StringSlice(x))): x in descending order.    *)
(***************************************************************************)
\* sort.Reverse(sort.StringSlice).Less(i, j) is x[j] < x[i].
ReverseLess(a, b) == StrLess(b, a)

RECURSIVE InsertSorted(_, _)
InsertSorted(x, sorted) ==
    IF sorted = <<>> THEN <<x>>
    ELSE IF ReverseLess(sorted[1], x) THEN <<sorted[1]>> \o InsertSorted(x, Tail(sorted))
    ELSE <<x>> \o sorted

RECURSIVE SortReverse(_)
SortReverse(x) ==
    IF x = <<>> THEN <<>> ELSE InsertSorted(x[1], SortReverse(Tail(x)))

(***************************************************************************)
(* regexp: the fragment of Go's syntax made of literals, alternation,      *)
(* groups and the anchors \A and \z.  A pattern is a sequence of tokens.   *)
(***************************************************************************)
Literals == {"a", "b"}
OpenTokens == {"(", "(?:"}
PatternTokens == Literals \cup {"|", "(", ")"}

\* Parenthesis depth in front of token i.
RECURSIVE DepthBefore(_, _)
DepthBefore(t, i) ==
    IF i <= 1 THEN 0
    ELSE DepthBefore(t, i - 1)
         + (IF t[i - 1] \in OpenTokens THEN 1 ELSE IF t[i - 1] = ")" THEN -1 ELSE 0)

\* regexp/syntax accepts the token sequence: no "unexpected )", no
\* "missing closing )".
WellFormed(t) ==
    /\ \A i \in 1..Len(t) : t[i] = ")" => DepthBefore(t, i) > 0
    /\ DepthBefore(t, Len(t) + 1) = 0

\* The index of the ")" closing the group opened at t[1].
CloseOf(t) ==
    CHOOSE m \in 2..Len(t) :
        /\ t[m] = ")"
        /\ DepthBefore(t, m) = 1
        /\ \A k \in 2..(m - 1) : DepthBefore(t, k + 1) >= 1

\* The indices of the top-level "|" of t, with the two ends.
Cuts(t) == {0, Len(t) + 1} \cup {i \in 1..Len(t) : t[i] = "|" /\ DepthBefore(t, i) = 0}

Alternatives(t) ==
    {SubSeq(t, lo + 1, hi - 1) : <<lo, hi>> \in
        {c \in Cuts(t) \X Cuts(t) :
            c[1] < c[2] /\ ~\E k \in Cuts(t) : c[1] < k /\ k < c[2]}}

\* Ends(t, s, i): the positions at which a match of t that starts at position
\* i of s can end (positions count consumed characters).
RECURSIVE Ends(_, _, _), EndsConcat(_, _, _)
Ends(t, s, i) == UNION {EndsConcat(alt, s, i) : alt \in Alternatives(t)}

EndsConcat(t, s, i) ==
    IF t = <<>> THEN {i}
    ELSE IF t[1] \in OpenTokens THEN
        LET m == CloseOf(t)
        IN  UNION {EndsConcat(SubSeq(t, m + 1, Len(t)), s, k) :
                     k \in Ends(SubSeq(t, 2, m - 1), s, i)}
    ELSE IF t[1] = "\\A" THEN (IF i = 0 THEN EndsConcat(Tail(t), s, i) ELSE {})
    ELSE IF t[1] = "\\z" THEN (IF i = Len(s) THEN EndsConcat(Tail(t), s, i) ELSE {})
    ELSE IF i < Len(s) /\ s[i + 1] = t[1] THEN EndsConcat(Tail(t), s, i + 1)
    ELSE {}

Nil == [expr |-> <<"nil">>, id |-> <<>>]

\* regexp.Compile: a new Regexp object (id is its identity) or a syntax error.
RegexpCompile(pattern, id) ==
    IF WellFormed(pattern)
    THEN [re |-> [expr |-> pattern, id |-> id], err |-> "nil"]
    ELSE [re |-> Nil, err |-> "syntax"]

\* (*Regexp).MatchString: some substring of s matches.
MatchString(re, s) == \E i \in 0..Len(s) : Ends(re.expr, s, i) # {}

(***************************************************************************)
(* The pattern cache: var compiledRegexp sync.Map and cachedRegexpCompile. *)
(***************************************************************************)
EmptyMap == [k \in {} |-> Nil]

\* sync.Map.Load
SyncMapLoad(m, key) ==
    IF key \in DOMAIN m THEN [v |-> m[key], ok |-> TRUE] ELSE [v |-> Nil, ok |-> FALSE]

\* A Store that loses the entry.
SyncMapStoreLost(m, key, value) == m

\* sync.Map.Store: sets the value for the key, whether or not one is present.
SyncMapStore(m, key, value) ==
    [k \in DOMAIN m \cup {key} |-> IF k = key THEN value ELSE m[k]]

NoValue == <<>>
NoHistory == [stores |-> [k \in {} |-> 0], requested |-> {}]

\* Concurrent render passes, and the patterns they ask for.
Callers == {"c1", "c2"}
CachePatterns == {<<"a">>, <<"a", "|", "b">>, <<"(">>}

IdleCall == [pc |-> "idle", pattern |-> <<>>, re |-> Nil, err |-> "nil", n |-> 0]

InitCache ==
    /\ compiledRegexp = EmptyMap
    /\ calls = [c \in Callers |-> IdleCall]
    /\ history = NoHistory
    /\ td = NoValue /\ svc = NoValue /\ args = NoValue /\ result = NoValue
    /\ op = "none"

\* A render pass calls cachedRegexpCompile(pattern).
Call(c, pattern) ==
    /\ calls[c].pc \in {"idle", "done"}
    /\ calls[c].n < MaxCallsPerCaller
    /\ calls' = [calls EXCEPT ![c] = [pc |-> "load", pattern |-> pattern, re |-> Nil,
                                      err |-> "nil", n |-> @.n + 1]]
    /\ history' = [history EXCEPT !.requested = @ \cup {pattern}]
    /\ UNCHANGED <<compiledRegexp, td, svc, args, result, op>>

\* v, ok := compiledRegexp.Load(pattern); if ok, return v.(*regexp.Regexp), nil
Load(c) ==
    /\ calls[c].pc = "load"
    /\ LET l == SyncMapLoad(compiledRegexp, calls[c].pattern)
       IN  calls' = [calls EXCEPT ![c].pc = IF l.ok THEN "done" ELSE "compile",
                                  ![c].re = l.v]
    /\ UNCHANGED <<compiledRegexp, history, td, svc, args, result, op>>

\* re, err := regexp.Compile(pattern); if err != nil, return nil, err
Compile(c) ==
    /\ calls[c].pc = "compile"
    /\ LET r == RegexpCompile(calls[c].pattern, <<c, calls[c].n>>)
       IN  calls' = [calls EXCEPT ![c].pc = IF r.err = "nil" THEN "store" ELSE "done",
                                  ![c].re = r.re,
                                  ![c].err = r.err]
    /\ UNCHANGED <<compiledRegexp, history, td, svc, args, result, op>>

\* compiledRegexp.Store(pattern, re); return re, nil
Store(c) ==
    /\ calls[c].pc = "store"
    /\ compiledRegexp' = SyncMapStore(compiledRegexp, calls[c].pattern, calls[c].re)
    /\ history' = [history EXCEPT !.stores =
                     [k \in DOMAIN @ \cup {calls[c].pattern} |->
                        (IF k \in DOMAIN @ THEN @[k] ELSE 0)
                        + (IF k = calls[c].pattern THEN 1 ELSE 0)]]
    /\ calls' = [calls EXCEPT ![c].pc = "done"]
    /\ UNCHANGED <<td, svc, args, result, op>>

NextCache ==
    \/ \E c \in Callers, pattern \in CachePatterns : Call(c, pattern)
    \/ \E c \in Callers : Load(c)
    \/ \E c \in Callers : Compile(c)
    \/ \E c \in Callers : Store(c)

SpecCache == InitCache /\ [][NextCache]_vars

AllReturned == \A c \in Callers : calls[c].pc \in {"idle", "done"}

\* C3: the cache entry of a pattern is stored at most once, and an entry that
\* is present is never overwritten by a later or racing call.
C3_WriteOnce ==
    /\ [](\A p \in DOMAIN history.stores : history.stores[p] <= 1)
    /\ [][\A p \in DOMAIN compiledRegexp :
            p \in DOMAIN compiledRegexp' /\ compiledRegexp'[p] = compiledRegexp[p]]_vars

\* C4: every entry is a compiled form of its own key, entries are never
\* removed, a failed compile adds no entry, and once every call has returned
\* every valid pattern asked for has an entry and every call returned a
\* compiled form of its own pattern (an error for an invalid one).
C4_RaceSafe ==
    /\ [](\A p \in DOMAIN compiledRegexp :
            WellFormed(p) /\ compiledRegexp[p] # Nil /\ compiledRegexp[p].expr = p)
    /\ [][\A p \in DOMAIN compiledRegexp : p \in DOMAIN compiledRegexp']_vars
    /\ [](AllReturned =>
            /\ \A p \in history.requested : WellFormed(p) => p \in DOMAIN compiledRegexp
            /\ \A c \in Callers : calls[c].pc = "done" =>
                  IF WellFormed(calls[c].pattern)
                  THEN calls[c].err = "nil" /\ calls[c].re.expr = calls[c].pattern
                  ELSE calls[c].err = "syntax" /\ calls[c].re = Nil)

\* Two callers raced on one pattern and both stored it, another valid pattern
\* and an invalid one were asked for, and every call has returned.
C4_Witness ==
    /\ AllReturned
    /\ \E p \in DOMAIN history.stores : history.stores[p] >= 2
    /\ Cardinality(DOMAIN compiledRegexp) >= 2
    /\ \E p \in history.requested : ~WellFormed(p)

(***************************************************************************)
(* The pattern matcher: firstMatch.                                        *)
(***************************************************************************)
\* `\A(?:` + pattern + `)\z`
Anchor(pattern) == <<"\\A", "(?:">> \o pattern \o <<")", "\\z">>

\* for _, value := range values { if re.MatchString(value) { return value } }
RECURSIVE FirstMatching(_, _)
FirstMatching(re, values) ==
    IF values = <<>> THEN <<>>
    ELSE IF MatchString(re, values[1]) THEN values[1]
    ELSE FirstMatching(re, Tail(values))

Patterns == SeqsUpTo(PatternTokens, MaxPatternLen)
Candidates == {<<>>, <<"a">>, <<"b">>, <<"a", "b">>}
FirstMatchArgs == [pattern : Patterns, values : SeqsUpTo(Candidates, MaxValues)]

\* What another render pass asks for when it does not ask for the same.
OtherArgs == [pattern |-> <<"a">>, values |-> <<<<"b">>, <<"a">>>>]

\* Render passes that overlap: each calls firstMatch with its own arguments,
\* the second with those of the first or with OtherArgs.
InitMatch ==
    /\ compiledRegexp = EmptyMap
    /\ calls = [c \in Callers |-> IdleCall]
    /\ history = NoHistory
    /\ \E a \in FirstMatchArgs : \E b \in {a, OtherArgs} :
          args = [c \in Callers |-> IF c = "c1" THEN a ELSE b]
    /\ result = [c \in Callers |-> <<>>]
    /\ td = NoValue /\ svc = NoValue
    /\ op = "none"

\* firstMatch(pattern, values...) is entered: it calls
\* cachedRegexpCompile(`\A(?:` + pattern + `)\z`).
FirstMatchCall(c) ==
    /\ calls[c].pc \in {"idle", "returned"}
    /\ calls[c].n < MaxCallsPerCaller
    /\ calls' = [calls EXCEPT ![c] = [pc |-> "load", pattern |-> Anchor(args[c].pattern),
                                      re |-> Nil, err |-> "nil", n |-> @.n + 1]]
    /\ history' = [history EXCEPT !.requested = @ \cup {Anchor(args[c].pattern)}]
    /\ UNCHANGED <<compiledRegexp, td, svc, args, result, op>>

\* cachedRegexpCompile has returned: the loop over the values, or the empty
\* string after an error.
FirstMatchReturn(c) ==
    /\ calls[c].pc = "done"
    /\ result' = [result EXCEPT ![c] =
                    IF calls[c].err = "nil"
                    THEN FirstMatching(calls[c].re, args[c].values)
                    ELSE <<>>]
    /\ calls' = [calls EXCEPT ![c].pc = "returned"]
    /\ UNCHANGED <<compiledRegexp, history, td, svc, args, op>>

NextMatch ==
    \/ \E c \in Callers : FirstMatchCall(c)
    \/ \E c \in Callers : Load(c)
    \/ \E c \in Callers : Compile(c)
    \/ \E c \in Callers : Store(c)
    \/ \E c \in Callers : FirstMatchReturn(c)

SpecMatch == InitMatch /\ [][NextMatch]_vars

\* The pattern itself matches the whole of s.
FullMatch(pattern, s) == WellFormed(pattern) /\ Len(s) \in Ends(pattern, s, 0)

RECURSIVE FirstFullMatch(_, _)
FirstFullMatch(pattern, values) ==
    IF values = <<>> THEN <<>>
    ELSE IF FullMatch(pattern, values[1]) THEN values[1]
    ELSE FirstFullMatch(pattern, Tail(values))

\* C5: firstMatch returns the first value, in input order, that the pattern
\* matches in full, and the empty string if none does or the pattern is
\* invalid; no step of a call with an invalid pattern changes the pattern
\* cache.
C5_FirstMatch ==
    /\ [](\A c \in Callers : calls[c].pc = "returned" =>
            result[c] = FirstFullMatch(args[c].pattern, args[c].values))
    /\ [][\A c \in Callers :
            (calls'[c] # calls[c] /\ ~WellFormed(args[c].pattern))
                => compiledRegexp' = compiledRegexp]_vars

\* firstMatch on the patterns that are valid on their own, under every
\* interleaving with the other render pass.
FirstMatchOnValidPatterns ==
    \A c \in Callers : (calls[c].pc = "returned" /\ WellFormed(args[c].pattern)) =>
        /\ result[c] = FirstFullMatch(args[c].pattern, args[c].values)
        /\ Anchor(args[c].pattern) \in DOMAIN compiledRegexp

(***************************************************************************)
(* Alias grouping and primary alias selection.                             *)
(***************************************************************************)
\* routev1.TLSTerminationType; "" is an alias without TLS.
Terminations == {"", "edge", "passthrough", "reencrypt"}

\* The zero ServiceAliasConfig, which a map yields for a key it does not hold.
ZeroAlias == [Host |-> <<>>, TLSTermination |-> ""]

\* aliases[k] of a Go map.
AliasAt(aliases, k) == IF k \in DOMAIN aliases THEN aliases[k] ELSE ZeroAlias

\* keys := make([]string, len(aliases)), which already holds len(aliases)
\* empty strings; for k := range aliases { keys = append(keys, k) }
CollectKeys(aliases, iter) == [i \in 1..Len(iter) |-> <<>>] \o iter

\* A scan of the keys as collected, without the sort.
ScanOrderUnsorted(aliases, iter) == CollectKeys(aliases, iter)

\* sort.Sort(sort.Reverse(sort.StringSlice(keys))): the order of the scan.
ScanOrder(aliases, iter) == SortReverse(CollectKeys(aliases, iter))

RECURSIVE FirstTerminating(_, _)
FirstTerminating(aliases, keys) ==
    IF keys = <<>> THEN [found |-> FALSE, key |-> <<>>]
    ELSE IF AliasAt(aliases, keys[1]).TLSTermination \in {"edge", "reencrypt"}
         THEN [found |-> TRUE, key |-> keys[1]]
         ELSE FirstTerminating(aliases, Tail(keys))

\* getPrimaryAliasKey(aliases), the map being ranged over in the order iter.
GetPrimaryAliasKey(aliases, iter) ==
    IF Cardinality(DOMAIN aliases) = 0 THEN <<>>
    ELSE IF Cardinality(DOMAIN aliases) = 1 THEN iter[1]
    ELSE LET keys == ScanOrder(aliases, iter)
             t == FirstTerminating(aliases, keys)
         IN  IF t.found THEN t.key ELSE keys[1]

\* A getHTTPAliasesGroupedByHost that does not skip passthrough aliases.
GroupStepNoSkip(res, k, a) ==
    [h \in DOMAIN res \cup {a.Host} |->
        LET g == IF h \in DOMAIN res THEN res[h] ELSE [x \in {} |-> ZeroAlias]
        IN  IF h = a.Host THEN [x \in DOMAIN g \cup {k} |-> IF x = k THEN a ELSE g[x]]
            ELSE g]

\* One iteration of the loop of getHTTPAliasesGroupedByHost.
GroupStep(res, k, a) ==
    IF a.TLSTermination = "passthrough" THEN res
    ELSE [h \in DOMAIN res \cup {a.Host} |->
            LET g == IF h \in DOMAIN res THEN res[h] ELSE [x \in {} |-> ZeroAlias]
            IN  IF h = a.Host THEN [x \in DOMAIN g \cup {k} |-> IF x = k THEN a ELSE g[x]]
                ELSE g]

RECURSIVE GroupLoop(_, _, _)
GroupLoop(res, aliases, iter) ==
    IF iter = <<>> THEN res
    ELSE GroupLoop(GroupStep(res, iter[1], aliases[iter[1]]), aliases, Tail(iter))

\* getHTTPAliasesGroupedByHost(aliases)
GetHTTPAliasesGroupedByHost(aliases, iter) ==
    GroupLoop([h \in {} |-> [x \in {} |-> ZeroAlias]], aliases, iter)

GroupKeys == {<<>>, <<"a">>, <<"a", "b">>, <<"b">>}
GroupHosts == {<<"h">>, <<"g">>}
GroupAliases == [Host : GroupHosts, TLSTermination : Terminations]

AliasTables(keys, configs, n) ==
    UNION {[K -> configs] : K \in {K \in SUBSET keys : Cardinality(K) <= n}}

InitAliases ==
    /\ \E aliases \in AliasTables(GroupKeys, GroupAliases, MaxGroup) :
         \E iter \in Perms(DOMAIN aliases) :
            args = [aliases |-> aliases, iter |-> iter]
    /\ compiledRegexp = NoValue /\ calls = NoValue /\ history = NoValue
    /\ td = NoValue /\ svc = NoValue
    /\ result = NoValue
    /\ op = "none"

CallGetPrimaryAliasKey ==
    /\ op = "none"
    /\ result' = GetPrimaryAliasKey(args.aliases, args.iter)
    /\ op' = "getPrimaryAliasKey"
    /\ UNCHANGED <<compiledRegexp, calls, history, td, svc, args>>

CallGetHTTPAliasesGroupedByHost ==
    /\ op = "none"
    /\ result' = GetHTTPAliasesGroupedByHost(args.aliases, args.iter)
    /\ op' = "getHTTPAliasesGroupedByHost"
    /\ UNCHANGED <<compiledRegexp, calls, history, td, svc, args>>

NextAliases ==
    \/ CallGetPrimaryAliasKey
    \/ CallGetHTTPAliasesGroupedByHost

SpecAliases == InitAliases /\ [][NextAliases]_vars

\* The greatest string of a non-empty set of strings.
Greatest(S) == CHOOSE k \in S : \A j \in S \ {k} : StrLess(j, k)

Terminating(aliases) ==
    {k \in DOMAIN aliases : aliases[k].TLSTermination \in {"edge", "reencrypt"}}

\* C1: getPrimaryAliasKey returns the empty key for no alias, the only key for
\* one alias, and otherwise the greatest key among the edge and reencrypt
\* aliases, or the greatest key of all when there is none; whatever the order
\* the map is ranged over, and whatever the placeholders in the key list.
C1_PrimaryAliasKey ==
    op = "getPrimaryAliasKey" =>
        LET keys == DOMAIN args.aliases
        IN  result =
                IF keys = {} THEN <<>>
                ELSE IF Cardinality(keys) = 1 THEN CHOOSE k \in keys : TRUE
                ELSE IF Terminating(args.aliases) # {}
                     THEN Greatest(Terminating(args.aliases))
                     ELSE Greatest(keys)

\* Three aliases, the greatest key not terminating, ranged over in ascending
\* order: the answer is a key that is neither first nor last in the map order.
C1_Witness ==
    /\ op = "getPrimaryAliasKey"
    /\ Cardinality(DOMAIN args.aliases) >= 2
    /\ Terminating(args.aliases) # {}
    /\ result # Greatest(DOMAIN args.aliases)
    /\ result # args.iter[1]
    /\ StrLess(args.iter[1], args.iter[2])

\* C10: no passthrough alias is in any group; every other alias is in exactly
\* one group, that of its Host, under its own key and unchanged; no group is
\* empty.
C10_GroupedByHost ==
    op = "getHTTPAliasesGroupedByHost" =>
        /\ \A k \in DOMAIN args.aliases :
              LET a == args.aliases[k]
              IN  IF a.TLSTermination = "passthrough"
                  THEN \A h \in DOMAIN result : k \notin DOMAIN result[h]
                  ELSE /\ a.Host \in DOMAIN result
                       /\ k \in DOMAIN result[a.Host]
                       /\ result[a.Host][k] = a
                       /\ \A h \in DOMAIN result \ {a.Host} : k \notin DOMAIN result[h]
        /\ \A h \in DOMAIN result :
              /\ DOMAIN result[h] # {}
              /\ DOMAIN result[h] \subseteq DOMAIN args.aliases

\* A group holds two aliases, and a passthrough alias of the same host was
\* left out of it.
C10_Witness ==
    /\ op = "getHTTPAliasesGroupedByHost"
    /\ \E h \in DOMAIN result :
          /\ Cardinality(DOMAIN result[h]) = 2
          /\ \E k \in DOMAIN args.aliases :
                /\ args.aliases[k].TLSTermination = "passthrough"
                /\ args.aliases[k].Host = h

(***************************************************************************)
(* The certificate map: generateHAProxyCertConfigMap.                      *)
(***************************************************************************)
Str_pem == <<".", "p", "e", "m">>
Str_alpn ==
    <<"[", "a", "l", "p", "n", " ", "h", "2", ",", "h", "t", "t", "p", "/", "1", ".", "1", "]">>

\* const certDir (router.go) and the working directory of the render pass.
certDir == <<"c", "e", "r", "t", "s">>
WorkingDirs == {<<"/", "w">>}

\* path.Join on elements that are already clean: the non-empty ones, joined
\* by "/".
PathJoin(elems) ==
    StringsJoin(SelectSeq(elems, LAMBDA e : e # <<>>), <<"/">>)

\* generateCertKey(&cfg) (router.go): the alias's host.
GenerateCertKey(cfg) == cfg.Host

\* backendConfig(name, cfg, hascert)
BackendConfig(name, cfg, hascert) ==
    [Name |-> name,
     Host |-> cfg.Host,
     Path |-> cfg.Path,
     IsWildcard |-> cfg.IsWildcard,
     Termination |-> cfg.TLSTermination,
     InsecurePolicy |-> cfg.InsecureEdgeTerminationPolicy,
     HasCertificate |-> hascert]

\* templateutil.GenCertificateHostName(hostname, wildcard)
RECURSIVE AfterFirstDot(_)
AfterFirstDot(h) ==
    IF h = <<>> THEN <<>> ELSE IF Head(h) = "." THEN Tail(h) ELSE AfterFirstDot(Tail(h))

GenCertificateHostName(hostname, wildcard) ==
    IF wildcard /\ \E i \in 2..Len(hostname) : hostname[i] = "."
    THEN <<"*", ".">> \o AfterFirstDot(hostname)
    ELSE hostname

\* haproxyutil.GenerateMapEntry(certConfigMap, cfg): an entry for an edge or
\* reencrypt alias with a host and a certificate, nothing otherwise.
GenerateMapEntry(cfg) ==
    IF Len(cfg.Host) > 0 /\ cfg.Termination \in {"edge", "reencrypt"} /\ cfg.HasCertificate
    THEN [nil |-> FALSE,
          Key |-> cfg.Name \o Str_pem,
          Value |-> GenCertificateHostName(cfg.Host, cfg.IsWildcard)]
    ELSE [nil |-> TRUE, Key |-> <<>>, Value |-> <<>>]

ZeroCertificate == [Contents |-> ""]

\* td.CertificateIndex[contents] of a Go map: 0 for a missing key.
IndexAt(index, contents) == IF contents \in DOMAIN index THEN index[contents] ELSE 0

\* The certificate the loop body looks up, and whether the alias has one.
LookupCert(cfg) ==
    IF Len(cfg.Host) > 0
    THEN LET certKey == GenerateCertKey(cfg)
             ok == certKey \in DOMAIN cfg.Certificates
             cert == IF ok THEN cfg.Certificates[certKey] ELSE ZeroCertificate
         IN  [cert |-> cert, hascert |-> ok /\ cert.Contents # ""]
    ELSE [cert |-> ZeroCertificate, hascert |-> FALSE]

\* An ALPN decision that looks at DisableHTTP2 alone.
NoAlpnIgnoringIndex(t, cert) == t.DisableHTTP2

\* td.DisableHTTP2 || td.CertificateIndex[cert.Contents] > 1
NoAlpn(t, cert) == t.DisableHTTP2 \/ IndexAt(t.CertificateIndex, cert.Contents) > 1

\* The body of the loop over td.State: the lines after alias k.
CertLoopBody(t, lines, k) ==
    LET cfg == t.State[k]
        l == LookupCert(cfg)
        entry == GenerateMapEntry(BackendConfig(k, cfg, l.hascert))
    IN  IF entry.nil THEN lines
        ELSE LET fqCertPath == PathJoin(<<t.WorkingDir, certDir, entry.Key>>)
             IN  IF NoAlpn(t, l.cert)
                 THEN Append(lines, StringsJoin(<<fqCertPath, entry.Value>>, <<" ">>))
                 ELSE Append(lines,
                             StringsJoin(<<fqCertPath, Str_alpn, entry.Value>>, <<" ">>))

RECURSIVE CertLoop(_, _, _)
CertLoop(t, lines, iter) ==
    IF iter = <<>> THEN lines
    ELSE CertLoop(t, CertLoopBody(t, lines, iter[1]), Tail(iter))

\* The lines as appended, without the final sort.
SortedLinesUnsorted(lines) == lines

\* sort.Sort(sort.Reverse(sort.StringSlice(lines)))
SortedLines(lines) == SortReverse(lines)

\* generateHAProxyCertConfigMap(td), td.State being ranged over in the order iter.
GenerateHAProxyCertConfigMap(t, iter) == SortedLines(CertLoop(t, <<>>, iter))

KeyNames == << <<"a">>, <<"a", ".", "p", "e", "m", " ", "h">>, <<"b">>, <<"c">> >>
CertKeys == {KeyNames[i] : i \in 1..MaxAliases}
CertContents == {"", "c1", "c2"}

\* The certificates of an alias: none, or one under its certificate key.
CertMaps(host) ==
    {[x \in {} |-> ZeroCertificate]}
        \cup {[x \in {host} |-> [Contents |-> c]] : c \in CertContents}

CertAliases ==
    UNION {[Host : {h}, Path : {<<>>}, IsWildcard : {FALSE},
            TLSTermination : Terminations, InsecureEdgeTerminationPolicy : {""},
            Certificates : CertMaps(h)] : h \in {<<>>, <<"h">>}}

\* The certificate index the caller computes: for each certificate content,
\* the number of aliases that hold a certificate with it.
ExactIndex(state) ==
    LET holds(k, c) == \E x \in DOMAIN state[k].Certificates :
                          state[k].Certificates[x].Contents = c
        used == {c \in CertContents : \E k \in DOMAIN state : holds(k, c)}
    IN  [c \in used |-> Cardinality({k \in DOMAIN state : holds(k, c)})]

InitCert ==
    /\ \E state \in AliasTables(CertKeys, CertAliases, MaxAliases) :
         td \in [State : {state}, WorkingDir : WorkingDirs, DisableHTTP2 : BOOLEAN,
                 CertificateIndex : {ExactIndex(state)}]
    /\ compiledRegexp = NoValue /\ calls = NoValue /\ history = NoValue
    /\ svc = NoValue /\ args = NoValue
    /\ result = NoValue
    /\ op = "none"

CallGenerateHAProxyCertConfigMap ==
    /\ op = "none"
    /\ \E iter \in Perms(DOMAIN td.State) :
          result' = GenerateHAProxyCertConfigMap(td, iter)
    /\ op' = "generateHAProxyCertConfigMap"
    /\ UNCHANGED <<compiledRegexp, calls, history, td, svc, args>>

NextCert == CallGenerateHAProxyCertConfigMap

SpecCert == InitCert /\ [][NextCert]_vars

\* The aliases the map-entry encoder produces an entry for.
WithEntry(t) ==
    {k \in DOMAIN t.State :
        ~GenerateMapEntry(BackendConfig(k, t.State[k], LookupCert(t.State[k]).hascert)).nil}

\* The line of alias k, with and without the ALPN hint.
PlainLine(t, k) ==
    t.WorkingDir \o <<"/">> \o certDir \o <<"/">> \o k \o Str_pem \o <<" ">>
        \o t.State[k].Host

HintedLine(t, k) ==
    t.WorkingDir \o <<"/">> \o certDir \o <<"/">> \o k \o Str_pem \o <<" ">>
        \o Str_alpn \o <<" ">> \o t.State[k].Host

Lines(r) == {r[i] : i \in 1..Len(r)}

\* The content of the certificate alias k is looked up with.
ContentsOf(t, k) == LookupCert(t.State[k]).cert.Contents

\* C2: the line of an alias with an entry carries the ALPN hint if and only
\* if DisableHTTP2 is false and CertificateIndex[cert.Contents] <= 1.
C2_AlpnHint ==
    op = "generateHAProxyCertConfigMap" =>
        \A k \in WithEntry(td) :
            IF ~td.DisableHTTP2 /\ IndexAt(td.CertificateIndex, ContentsOf(td, k)) <= 1
            THEN HintedLine(td, k) \in Lines(result) /\ PlainLine(td, k) \notin Lines(result)
            ELSE PlainLine(td, k) \in Lines(result) /\ HintedLine(td, k) \notin Lines(result)

\* HTTP/2 is enabled and two aliases share one certificate content: both have
\* a line, neither with the hint.
C2_Witness ==
    /\ op = "generateHAProxyCertConfigMap"
    /\ ~td.DisableHTTP2
    /\ Cardinality(WithEntry(td)) = 2
    /\ \A k \in WithEntry(td) : IndexAt(td.CertificateIndex, ContentsOf(td, k)) = 2
    /\ \A k \in WithEntry(td) : PlainLine(td, k) \in Lines(result)

\* C6: the lines are in descending order, the same for every order the map is
\* ranged over, one line per alias with an entry, and a line that is a proper
\* prefix of another comes after it.
C6_SortedLines ==
    op = "generateHAProxyCertConfigMap" =>
        /\ \A i, j \in 1..Len(result) : i < j => ~StrLess(result[i], result[j])
        /\ \A iter \in Perms(DOMAIN td.State) :
              GenerateHAProxyCertConfigMap(td, iter) = result
        /\ Len(result) = Cardinality(WithEntry(td))
        /\ \A k \in WithEntry(td) :
              Cardinality({i \in 1..Len(result) :
                              result[i] \in {PlainLine(td, k), HintedLine(td, k)}}) = 1
        /\ \A i, j \in 1..Len(result) :
              (IsPrefix(result[i], result[j]) /\ result[i] # result[j]) => j < i

\* Two lines, one a proper prefix of the other, which some order of the map
\* appends shortest first.
C6_Witness ==
    /\ op = "generateHAProxyCertConfigMap"
    /\ Len(result) = 2
    /\ IsPrefix(result[2], result[1]) /\ result[1] # result[2]
    /\ \E iter \in Perms(DOMAIN td.State) : CertLoop(td, <<>>, iter) # result

(***************************************************************************)
(* Annotation sanitizers: clipHAProxyTimeoutValue.                         *)
(***************************************************************************)
\* templateutil.HaproxyMaxTimeout and HaproxyDefaultTimeout, and the duration
\* of the former.  Durations are counted in a unit in which the maximum is
\* small, so that durations above it can be drawn.
HaproxyMaxTimeout == "2147483647ms"
HaproxyDefaultTimeout == "5s"
HaproxyMaxTimeoutDuration == 4
HaproxyDefaultTimeoutDuration == 1

\* haproxytime.ParseDuration's outcomes: nil with a duration, or OverflowError,
\* SyntaxError or another error with the zero duration.
ParseErrors == {"OverflowError", "SyntaxError", "other"}
ParseOutcomes ==
    [duration : 0..MaxDuration, err : {"nil"}] \cup [duration : {0}, err : ParseErrors]

\* What haproxytime.ParseDuration can answer for val: the two literals parse
\* to their durations, any outcome is drawn for another value.
ParseDuration(val) ==
    IF val = HaproxyMaxTimeout
    THEN {[duration |-> HaproxyMaxTimeoutDuration, err |-> "nil"]}
    ELSE IF val = HaproxyDefaultTimeout
    THEN {[duration |-> HaproxyDefaultTimeoutDuration, err |-> "nil"]}
    ELSE ParseOutcomes

\* A clip that lets a duration above the maximum through.
ClipHAProxyTimeoutValueNoClip(val, parsed) ==
    IF val = "" THEN val
    ELSE IF parsed.err = "OverflowError" THEN HaproxyMaxTimeout
    ELSE IF parsed.err = "SyntaxError" THEN ""
    ELSE IF parsed.err # "nil" THEN HaproxyDefaultTimeout
    ELSE val

\* clipHAProxyTimeoutValue(val), parsed being what ParseDuration(val) answers.
ClipHAProxyTimeoutValue(val, parsed) ==
    IF val = "" THEN val
    ELSE IF parsed.err = "OverflowError" THEN HaproxyMaxTimeout
    ELSE IF parsed.err = "SyntaxError" THEN ""
    ELSE IF parsed.err # "nil" THEN HaproxyDefaultTimeout
    ELSE IF parsed.duration > HaproxyMaxTimeoutDuration THEN HaproxyMaxTimeout
    ELSE val

TimeoutValues ==
    {"", "5s", "1s", "10m", "1h", "25d", "abc", "5x", "2147483647ms", "2147483648ms",
     "9223372036854775808"}

InitClip ==
    /\ \E val \in TimeoutValues : \E parsed \in ParseDuration(val) :
          args = [val |-> val, parsed |-> parsed]
    /\ compiledRegexp = NoValue /\ calls = NoValue /\ history = NoValue
    /\ td = NoValue /\ svc = NoValue
    /\ result = NoValue
    /\ op = "none"

CallClipHAProxyTimeoutValue ==
    /\ op = "none"
    /\ result' = ClipHAProxyTimeoutValue(args.val, args.parsed)
    /\ op' = "clipHAProxyTimeoutValue"
    /\ UNCHANGED <<compiledRegexp, calls, history, td, svc, args>>

NextClip == CallClipHAProxyTimeoutValue

SpecClip == InitClip /\ [][NextClip]_vars

\* What the parser answers for the returned string.
ParsedResult ==
    IF result = args.val THEN args.parsed ELSE CHOOSE o \in ParseDuration(result) : TRUE

\* C7: empty gives empty; a parsed duration <= the maximum gives val; a parsed
\* duration above it, or an overflow, gives the maximum literal; a syntax
\* error gives empty; another error gives the default literal; so a non-empty
\* result never has a duration above the maximum.
C7_ClipTimeout ==
    op = "clipHAProxyTimeoutValue" =>
        /\ args.val = "" => result = ""
        /\ args.val # "" =>
              /\ (args.parsed.err = "nil"
                    /\ args.parsed.duration <= HaproxyMaxTimeoutDuration)
                  => result = args.val
              /\ (args.parsed.err = "nil"
                    /\ args.parsed.duration > HaproxyMaxTimeoutDuration)
                  => result = HaproxyMaxTimeout
              /\ args.parsed.err = "OverflowError" => result = HaproxyMaxTimeout
              /\ args.parsed.err = "SyntaxError" => result = ""
              /\ args.parsed.err = "other" => result = HaproxyDefaultTimeout
        /\ result # "" =>
              ParsedResult.err = "nil" /\ ParsedResult.duration <= HaproxyMaxTimeoutDuration

\* A value that parses to a duration above the maximum was clipped.
C7_Witness ==
    /\ op = "clipHAProxyTimeoutValue"
    /\ args.parsed.err = "nil"
    /\ args.parsed.duration > HaproxyMaxTimeoutDuration
    /\ result = HaproxyMaxTimeout
    /\ result # args.val

(***************************************************************************)
(* Annotation sanitizers: parseIPList.  A list is a sequence of atoms: the *)
(* white space characters, and pieces of text without white space.         *)
(***************************************************************************)
Space == {" ", "\t"}
ListAtoms == Space \cup {"10.0.0.1", "/8", "x"}

\* strings.TrimSpace
RECURSIVE TrimLeft(_)
TrimLeft(s) ==
    IF s = <<>> THEN <<>> ELSE IF Head(s) \in Space THEN TrimLeft(Tail(s)) ELSE s

RECURSIVE TrimRight(_)
TrimRight(s) ==
    IF s = <<>> THEN <<>>
    ELSE IF s[Len(s)] \in Space THEN TrimRight(SubSeq(s, 1, Len(s) - 1))
    ELSE s

TrimSpace(s) == TrimRight(TrimLeft(s))

\* strings.Fields: the maximal runs of non-space atoms, in order.
RECURSIVE FieldsFrom(_, _, _)
FieldsFrom(s, cur, acc) ==
    IF s = <<>> THEN (IF cur = <<>> THEN acc ELSE Append(acc, cur))
    ELSE IF Head(s) \in Space
         THEN FieldsFrom(Tail(s), <<>>, IF cur = <<>> THEN acc ELSE Append(acc, cur))
         ELSE FieldsFrom(Tail(s), Append(cur, Head(s)), acc)

Fields(s) == FieldsFrom(s, <<>>, <<>>)

\* net.ParseIP(ip) != nil, and net.ParseCIDR(ip) without error, on the texts
\* the atoms can spell.
IsIP(ip) == ip = <<"10.0.0.1">>
IsCIDR(ip) == ip = <<"10.0.0.1", "/8">>

\* The loop over strings.Fields(list): the valid tokens, in order.
ValidIPs(ipList) == SelectSeq(ipList, LAMBDA ip : IsIP(ip) \/ IsCIDR(ip))

\* A parseIPList that trims the list instead of rejecting it.
ParseIPListTrimming(list) ==
    LET trimmedList == TrimSpace(list)
    IN  IF trimmedList = <<>> THEN <<>>
        ELSE LET validIPs == ValidIPs(Fields(list))
             IN  IF Len(validIPs) = 0 THEN <<>>
                 ELSE StringsJoin(validIPs, <<" ">>)

\* parseIPList(list)
ParseIPList(list) ==
    LET trimmedList == TrimSpace(list)
    IN  IF trimmedList = <<>> THEN <<>>
        ELSE IF trimmedList # list THEN <<>>
        ELSE LET validIPs == ValidIPs(Fields(list))
             IN  IF Len(validIPs) = 0 THEN <<>>
                 ELSE StringsJoin(validIPs, <<" ">>)

InitIPList ==
    /\ args \in [list : SeqsUpTo(ListAtoms, MaxListLen)]
    /\ compiledRegexp = NoValue /\ calls = NoValue /\ history = NoValue
    /\ td = NoValue /\ svc = NoValue
    /\ result = NoValue
    /\ op = "none"

CallParseIPList ==
    /\ op = "none"
    /\ result' = ParseIPList(args.list)
    /\ op' = "parseIPList"
    /\ UNCHANGED <<compiledRegexp, calls, history, td, svc, args>>

NextIPList == CallParseIPList

SpecIPList == InitIPList /\ [][NextIPList]_vars

\* The list starts or ends with white space, or holds nothing else.
Rejected(list) ==
    \/ \A i \in 1..Len(list) : list[i] \in Space
    \/ list[1] \in Space
    \/ list[Len(list)] \in Space

\* The tokens of a list: t is the i-th token when it is a maximal run of
\* non-space atoms and i - 1 such runs start before it.
TokenStarts(list) ==
    {i \in 1..Len(list) : list[i] \notin Space /\ (i = 1 \/ list[i - 1] \in Space)}

TokenAt(list, i) ==
    LET stop == CHOOSE j \in i..Len(list) :
                    /\ \A k \in i..j : list[k] \notin Space
                    /\ (j = Len(list) \/ list[j + 1] \in Space)
    IN  SubSeq(list, i, stop)

\* The valid tokens of the list in input order, each followed by its rank.
ValidStarts(list) ==
    {i \in TokenStarts(list) : IsIP(TokenAt(list, i)) \/ IsCIDR(TokenAt(list, i))}

RECURSIVE JoinFrom(_, _)
JoinFrom(list, starts) ==
    IF starts = {} THEN <<>>
    ELSE LET i == CHOOSE x \in starts : \A y \in starts : x <= y
             rest == JoinFrom(list, starts \ {i})
         IN  IF rest = <<>> THEN TokenAt(list, i) ELSE TokenAt(list, i) \o <<" ">> \o rest

\* C8: parseIPList returns the empty string for a list that is empty after
\* trimming or has leading or trailing white space; otherwise the valid tokens
\* in input order joined by single spaces (empty when there is none); every
\* token of a result is valid, and parseIPList of a result is that result.
C8_ParseIPList ==
    op = "parseIPList" =>
        /\ Rejected(args.list) => result = <<>>
        /\ ~Rejected(args.list) => result = JoinFrom(args.list, ValidStarts(args.list))
        /\ \A i \in TokenStarts(result) :
              IsIP(TokenAt(result, i)) \/ IsCIDR(TokenAt(result, i))
        /\ \A i \in 1..Len(result) : result[i] \in Space =>
              /\ result[i] = " "
              /\ 1 < i /\ i < Len(result)
              /\ result[i - 1] \notin Space
        /\ ParseIPList(result) = result

\* An invalid token between two valid ones, separated by a tab, was dropped.
C8_Witness ==
    /\ op = "parseIPList"
    /\ Len(args.list) >= 5
    /\ \E i \in 1..Len(args.list) : args.list[i] = "\t"
    /\ \E i \in TokenStarts(args.list) : i \notin ValidStarts(args.list)
    /\ Cardinality(TokenStarts(result)) = 2
    /\ result # args.list

(***************************************************************************)
(* Endpoint processing: endpointsForAlias and processEndpointsForAlias.    *)
(* A slice is its elements together with whether it shares the backing     *)
(* array of svc.EndpointTable.                                             *)
(***************************************************************************)
Endpoints ==
    {[ID |-> "e1", Port |-> "8080", PortName |-> "web"],
     [ID |-> "e2", Port |-> "8080", PortName |-> "web"],
     [ID |-> "e3", Port |-> "8443", PortName |-> "tls"]}
PreferPorts == {"", "web", "8443", "metrics"}
Actions == {"", "shuffle", "Shuffle", "SHUFFLE", "roundrobin"}

\* strings.ToLower on the actions of the model.
ToLower(s) == IF s \in {"Shuffle", "SHUFFLE"} THEN "shuffle" ELSE s

\* endpointsForAlias(alias, svc): svc.EndpointTable itself when the alias
\* prefers no port, otherwise a new slice of the endpoints of that port.
EndpointsForAlias(alias, s) ==
    IF alias.PreferPort = ""
    THEN [shared |-> TRUE, elems |-> s.EndpointTable]
    ELSE [shared |-> FALSE,
          elems |-> SelectSeq(s.EndpointTable,
                              LAMBDA e : e.PortName = alias.PreferPort
                                           \/ e.Port = alias.PreferPort)]

Swap(x, i, j) == [x EXCEPT ![i] = x[j], ![j] = x[i]]

\* for i := len(endpoints) - 1; i >= 0; i-- { swap i and rand.Intn(i + 1) },
\* rIndex[i] being the draw at position i (positions count from 1).
RECURSIVE ShuffleLoop(_, _, _)
ShuffleLoop(x, i, rIndex) ==
    IF i < 1 THEN x ELSE ShuffleLoop(Swap(x, i, rIndex[i]), i - 1, rIndex)

Draws(n) == {r \in [1..n -> 1..n] : \A i \in 1..n : r[i] <= i}

InitEndpoints ==
    /\ svc \in [EndpointTable : {x \in SeqsUpTo(Endpoints, MaxEndpoints) :
                                   \A i, j \in 1..Len(x) : i # j => x[i] # x[j]}]
    /\ args \in [alias : [PreferPort : PreferPorts], action : Actions]
    /\ compiledRegexp = NoValue /\ calls = NoValue /\ history = NoValue
    /\ td = NoValue
    /\ result = NoValue
    /\ op = "none"

\* processEndpointsForAlias(alias, svc, action)
CallProcessEndpointsForAlias ==
    /\ op = "none"
    /\ LET endpoints == EndpointsForAlias(args.alias, svc)
       IN  IF ToLower(args.action) = "shuffle"
           THEN \E rIndex \in Draws(Len(endpoints.elems)) :
                   LET shuffled == ShuffleLoop(endpoints.elems, Len(endpoints.elems), rIndex)
                   IN  /\ result' = shuffled
                       /\ svc' = IF endpoints.shared
                                 THEN [svc EXCEPT !.EndpointTable = shuffled]
                                 ELSE svc
           ELSE /\ result' = endpoints.elems
                /\ svc' = svc
    /\ op' = "processEndpointsForAlias"
    /\ UNCHANGED <<compiledRegexp, calls, history, td, args>>

NextEndpoints == CallProcessEndpointsForAlias

SpecEndpoints == InitEndpoints /\ [][NextEndpoints]_vars

\* C9: a call leaves the data it is given as it was: the service unit's
\* endpoint sequence holds the same elements in the same order after
\* processEndpointsForAlias returns, and the alias table is unchanged.
C9_NoMutation ==
    [][svc'.EndpointTable = svc.EndpointTable /\ td' = td /\ args' = args]_vars

\* The call leaves the endpoint table as it was when the alias prefers a port
\* or the action is not a shuffle.
EndpointsKeptUnlessSharedShuffle ==
    [][(args.alias.PreferPort # "" \/ ToLower(args.action) # "shuffle")
          => svc'.EndpointTable = svc.EndpointTable]_vars

====
